---------------------------- MODULE Spec2Model ----------------------------
(***************************************************************************)
(* WinHttpWebSocketTransport (sdk/core/azure-core/src/http/winhttp/         *)
(* win_http_websockets.cpp): one transport object, its native WebSocket    *)
(* handle m_socketHandle (a unique_HINTERNET), its two mutexes, and caller *)
(* threads that run OnResponseReceived, SendFrame, ReceiveFrame,           *)
(* CloseSocket, GetCloseSocketInformation and Close on it.                 *)
(*                                                                         *)
(* Every blocking native WinHTTP call is a pair of steps (the call is      *)
(* issued, the call returns), so that other threads interleave while it is *)
(* outstanding.  The native layer is the environment: what it returns is   *)
(* chosen nondeterministically.                                            *)
(***************************************************************************)
EXTENDS Naturals, Sequences, FiniteSets

\* ---------------------------------------------------------------- bounds
NumThreads == 2
MaxHandles == 2
MaxPayloadExtra == 1

\* ------------------------------------------------------ program constants
\* std::vector<uint8_t> buffer(128) in ReceiveFrame
StagingBufferSize == 128

Threads == 1 .. NumThreads
Handles == 1 .. MaxHandles
NullHandle == 0

MutexNames == {"m_sendMutex", "m_receiveMutex"}

\* WebSocketFrameType values the source names
SupportedFrameTypes ==
  {"FrameTypeText", "FrameTypeBinary", "FrameTypeBinaryFragment", "FrameTypeTextFragment"}
FrameTypes == SupportedFrameTypes \cup {"FrameTypeClosed"}

\* WINHTTP_WEB_SOCKET_BUFFER_TYPE values the source names, and one it does not
KnownBufferTypes ==
  { "WINHTTP_WEB_SOCKET_UTF8_MESSAGE_BUFFER_TYPE",
    "WINHTTP_WEB_SOCKET_BINARY_MESSAGE_BUFFER_TYPE",
    "WINHTTP_WEB_SOCKET_BINARY_FRAGMENT_BUFFER_TYPE",
    "WINHTTP_WEB_SOCKET_UTF8_FRAGMENT_BUFFER_TYPE",
    "WINHTTP_WEB_SOCKET_CLOSE_BUFFER_TYPE" }
UnknownBufferType == "UNKNOWN_BUFFER_TYPE"
BufferTypes == KnownBufferTypes \cup {UnknownBufferType}

\* Native error codes: 0 is success
NoError == "ERROR_SUCCESS"
InsufficientBuffer == "ERROR_INSUFFICIENT_BUFFER"
InvalidHandle == "ERROR_INVALID_HANDLE"
ConnectionError == "ERROR_WINHTTP_CONNECTION_ERROR"

\* uint16_t close status values the callers and the peer use
StatusValues == {1000, 1001}

\* uint16_t closeStatus = 0 in GetCloseSocketInformation: no status was read
NoStatus == 0

VARIABLES
  m_socketHandle,  \* the handle the unique_HINTERNET member owns, NullHandle if none
  mutex,           \* m_sendMutex, m_receiveMutex: the owning thread, 0 if free
  alive,           \* the transport object has not been destroyed
  handlesCreated,  \* native handles WinHttpWebSocketCompleteUpgrade has returned so far
  released,        \* per native handle, how often HINTERNET_deleter ran on it (capped at 2)
  closeReturned,   \* history: Close() has returned since the handle was last assigned
  callers,         \* "concurrent": threads call at will; "sequential": one call at a time
  pc,              \* per thread: its position
  op,              \* per thread: the operation it runs
  arg,             \* per thread: frameType (SendFrame) or status (CloseSocket)
  hnd,             \* per thread: the handle value it passed to the native call in progress
  ctx,             \* per thread: the call's Context: "live", or when it was cancelled
  result,          \* per thread: how the operation ended
  out,             \* per thread: what the operation returned
  log,             \* per thread: history of the native calls the operation issued
  rt               \* the round-trip harness: a frame, the wire, the frame read back

chanVars == <<m_socketHandle, mutex, alive, handlesCreated, released, closeReturned, callers>>
thVars == <<pc, op, arg, hnd, ctx, result, out, log>>
vars == <<m_socketHandle, mutex, alive, handlesCreated, released, closeReturned, callers,
          pc, op, arg, hnd, ctx, result, out, log, rt>>

RtIdle == [stage |-> "off"]

InitThreads ==
  /\ pc = [t \in Threads |-> "idle"]
  /\ op = [t \in Threads |-> "none"]
  /\ arg = [t \in Threads |-> "none"]
  /\ hnd = [t \in Threads |-> NullHandle]
  /\ ctx = [t \in Threads |-> "live"]
  /\ result = [t \in Threads |-> "none"]
  /\ out = [t \in Threads |-> "none"]
  /\ log = [t \in Threads |-> <<>>]

\* The transport as constructed: no handle yet, both mutexes free.
InitChannel ==
  /\ m_socketHandle = NullHandle
  /\ mutex = [m \in MutexNames |-> 0]
  /\ alive = TRUE
  /\ handlesCreated = 0
  /\ released = [h \in Handles |-> 0]
  /\ closeReturned = FALSE

Init ==
  /\ InitChannel
  /\ InitThreads
  /\ callers = "concurrent"
  /\ rt = RtIdle

SeqInit ==
  /\ InitChannel
  /\ InitThreads
  /\ callers = "sequential"
  /\ rt = RtIdle

\* ------------------------------------------------------------- helpers

\* (mutant) the cancellation check is missing
NeverThrowIfCancelled(c) == FALSE

\* Context::ThrowIfCancelled throws iff the context is cancelled (or past its deadline).
ThrowIfCancelled(c) == c # "live"

\* HINTERNET_deleter on a handle: WinHttpCloseHandle(h).
Delete(rel, h) == [rel EXCEPT ![h] = IF @ < 2 THEN @ + 1 ELSE @]

\* unique_HINTERNET::reset() and the destructor: the deleter runs iff a handle is held.
ResetHandle(rel, h) == IF h # NullHandle THEN Delete(rel, h) ELSE rel

\* The native calls issued so far, after the deleter ran (or not) on h.
DeleterLog(l, h) == IF h # NullHandle THEN Append(l, "WinHttpCloseHandle") ELSE l

\* What a native call on handle h may report: a null handle is refused.
NativeErrors(h) ==
  IF h = NullHandle THEN {InvalidHandle} ELSE {NoError, ConnectionError}

\* A caller may enter an operation: the object exists, and under sequential
\* callers no other call is in progress.
MayEnter(t) ==
  /\ alive
  /\ pc[t] = "idle"
  /\ callers = "sequential" => \A u \in Threads : pc[u] = "idle"

\* The operation ends: it returns (res = "ok") or throws (anything else).
Finish(t, res, o) ==
  /\ pc' = [pc EXCEPT ![t] = "done"]
  /\ result' = [result EXCEPT ![t] = res]
  /\ out' = [out EXCEPT ![t] = o]
  /\ hnd' = [hnd EXCEPT ![t] = NullHandle]

Enter(t, name, a, c) ==
  /\ op' = [op EXCEPT ![t] = name]
  /\ arg' = [arg EXCEPT ![t] = a]
  /\ ctx' = [ctx EXCEPT ![t] = c]

\* The caller takes the result and is free to call again.
Return(t) ==
  /\ pc[t] = "done"
  /\ pc' = [pc EXCEPT ![t] = "idle"]
  /\ op' = [op EXCEPT ![t] = "none"]
  /\ arg' = [arg EXCEPT ![t] = "none"]
  /\ ctx' = [ctx EXCEPT ![t] = "live"]
  /\ result' = [result EXCEPT ![t] = "none"]
  /\ out' = [out EXCEPT ![t] = "none"]
  /\ log' = [log EXCEPT ![t] = <<>>]
  /\ UNCHANGED <<chanVars, hnd, rt>>


\* The context is cancelled while the call is in progress (by whoever owns the
\* context): while a native call is outstanding ("in_native"), or before the lock is
\* obtained, while another thread holds it ("blocked") or not ("waiting").
LockWaitPcs == {"send_lock", "recv_lock", "query_lock"}
NativePcs == {"send_native", "recv_native", "close_native", "query_native"}

\* The mutex a thread at a lock_guard is about to take.
WaitsFor(p) ==
  CASE p = "send_lock" -> "m_sendMutex"
    [] p = "recv_lock" -> "m_receiveMutex"
    [] p = "query_lock" -> "m_receiveMutex"

Cancel(t) ==
  /\ ctx[t] = "live"
  /\ pc[t] \in LockWaitPcs \cup NativePcs
  /\ ctx' = [ctx EXCEPT ![t] =
               IF pc[t] \in NativePcs THEN "in_native"
               ELSE IF mutex[WaitsFor(pc[t])] # 0 THEN "blocked" ELSE "waiting"]
  /\ UNCHANGED <<chanVars, pc, op, arg, hnd, result, out, log, rt>>

\* ------------------------------------------------- OnResponseReceived

\* WinHttpWebSocketCompleteUpgrade(requestHandle.get(), 0): a new native handle, or
\* NULL on failure, held in the temporary unique_HINTERNET.
OnResponseReceivedUpgrade(t) ==
  /\ MayEnter(t)
  /\ \E ok \in BOOLEAN :
       /\ ok => handlesCreated < MaxHandles
       /\ handlesCreated' = IF ok THEN handlesCreated + 1 ELSE handlesCreated
       /\ hnd' = [hnd EXCEPT ![t] = IF ok THEN handlesCreated + 1 ELSE NullHandle]
  /\ Enter(t, "OnResponseReceived", "none", "live")
  /\ pc' = [pc EXCEPT ![t] = "assign"]
  /\ log' = [log EXCEPT ![t] = <<"WinHttpWebSocketCompleteUpgrade">>]
  /\ UNCHANGED <<m_socketHandle, mutex, alive, released, closeReturned, callers,
                 result, out, rt>>

\* (mutant) the new handle overwrites the one held, which is never closed
OnResponseReceivedOverwrite(t) ==
  /\ pc[t] = "assign"
  /\ m_socketHandle' = hnd[t]
  /\ closeReturned' = FALSE
  /\ Finish(t, IF hnd[t] = NullHandle THEN "UpgradeError" ELSE "ok", "none")
  /\ UNCHANGED <<mutex, alive, handlesCreated, released, callers, op, arg, ctx, log, rt>>

\* (mutant) a failed upgrade leaves the member as it was
OnResponseReceivedKeepOnFailure(t) ==
  /\ pc[t] = "assign"
  /\ released' = IF hnd[t] = NullHandle THEN released ELSE ResetHandle(released, m_socketHandle)
  /\ m_socketHandle' = IF hnd[t] = NullHandle THEN m_socketHandle ELSE hnd[t]
  /\ closeReturned' = FALSE
  /\ log' = [log EXCEPT ![t] = IF hnd[t] = NullHandle THEN @ ELSE DeleterLog(@, m_socketHandle)]
  /\ Finish(t, IF hnd[t] = NullHandle THEN "UpgradeError" ELSE "ok", "none")
  /\ UNCHANGED <<mutex, alive, handlesCreated, callers, op, arg, ctx, rt>>

\* m_socketHandle = unique_HINTERNET(...): the move assignment runs the deleter on
\* the handle held before, then owns the new one; a null result throws.
OnResponseReceivedAssign(t) ==
  /\ pc[t] = "assign"
  /\ released' = ResetHandle(released, m_socketHandle)
  /\ m_socketHandle' = hnd[t]
  /\ closeReturned' = FALSE
  /\ log' = [log EXCEPT ![t] = DeleterLog(@, m_socketHandle)]
  /\ Finish(t, IF hnd[t] = NullHandle THEN "UpgradeError" ELSE "ok", "none")
  /\ UNCHANGED <<mutex, alive, handlesCreated, callers, op, arg, ctx, rt>>

\* -------------------------------------------------------------- Close

\* m_socketHandle.reset(): reads the handle held ...
CloseRead(t) ==
  /\ MayEnter(t)
  /\ Enter(t, "Close", "none", "live")
  /\ pc' = [pc EXCEPT ![t] = "reset"]
  /\ hnd' = [hnd EXCEPT ![t] = m_socketHandle]
  /\ UNCHANGED <<chanVars, result, out, log, rt>>

\* (mutant) the deleter runs on the handle but the member keeps pointing at it
CloseReleaseKeepsPointer(t) ==
  /\ pc[t] = "reset"
  /\ m_socketHandle' = m_socketHandle
  /\ released' = ResetHandle(released, m_socketHandle)
  /\ closeReturned' = TRUE
  /\ log' = [log EXCEPT ![t] = DeleterLog(@, m_socketHandle)]
  /\ Finish(t, "ok", "none")
  /\ UNCHANGED <<mutex, alive, handlesCreated, callers, op, arg, ctx, rt>>

\* ... stores null and runs the deleter on what it read, if that was a handle.
CloseRelease(t) ==
  /\ pc[t] = "reset"
  /\ m_socketHandle' = NullHandle
  /\ released' = ResetHandle(released, hnd[t])
  /\ closeReturned' = TRUE
  /\ log' = [log EXCEPT ![t] = DeleterLog(@, hnd[t])]
  /\ Finish(t, "ok", "none")
  /\ UNCHANGED <<mutex, alive, handlesCreated, callers, op, arg, ctx, rt>>

\* The transport is destroyed (no call in progress): the unique_HINTERNET member's
\* destructor runs the deleter on the handle held.
Destroy ==
  /\ alive
  /\ \A t \in Threads : pc[t] = "idle"
  /\ alive' = FALSE
  /\ released' = ResetHandle(released, m_socketHandle)
  /\ m_socketHandle' = NullHandle
  /\ UNCHANGED <<mutex, handlesCreated, closeReturned, callers, thVars, rt>>

\* ---------------------------------------------------------- SendFrame

\* (mutant) the switch has a case for the Closed frame type
FrameTypeToBufferTypeWithClose(frameType) ==
  CASE frameType = "FrameTypeText" -> "WINHTTP_WEB_SOCKET_UTF8_MESSAGE_BUFFER_TYPE"
    [] frameType = "FrameTypeBinary" -> "WINHTTP_WEB_SOCKET_BINARY_MESSAGE_BUFFER_TYPE"
    [] frameType = "FrameTypeBinaryFragment" -> "WINHTTP_WEB_SOCKET_BINARY_FRAGMENT_BUFFER_TYPE"
    [] frameType = "FrameTypeTextFragment" -> "WINHTTP_WEB_SOCKET_UTF8_FRAGMENT_BUFFER_TYPE"
    [] frameType = "FrameTypeClosed" -> "WINHTTP_WEB_SOCKET_CLOSE_BUFFER_TYPE"
    [] OTHER -> "none"

\* The switch of SendFrame: the wire buffer type of a frame type, "none" for the
\* default branch (which throws).
FrameTypeToBufferType(frameType) ==
  CASE frameType = "FrameTypeText" -> "WINHTTP_WEB_SOCKET_UTF8_MESSAGE_BUFFER_TYPE"
    [] frameType = "FrameTypeBinary" -> "WINHTTP_WEB_SOCKET_BINARY_MESSAGE_BUFFER_TYPE"
    [] frameType = "FrameTypeBinaryFragment" -> "WINHTTP_WEB_SOCKET_BINARY_FRAGMENT_BUFFER_TYPE"
    [] frameType = "FrameTypeTextFragment" -> "WINHTTP_WEB_SOCKET_UTF8_FRAGMENT_BUFFER_TYPE"
    [] OTHER -> "none"

\* The mutex SendFrame's lock_guard takes.
SendFrameMutex == "m_sendMutex"

\* context.ThrowIfCancelled(), then the switch on frameType.
SendFrameEnter(t) ==
  /\ MayEnter(t)
  /\ \E frameType \in FrameTypes, c \in {"live", "at_entry"} :
       /\ Enter(t, "SendFrame", frameType, c)
       /\ IF ThrowIfCancelled(c)
            THEN Finish(t, "Cancelled", "none")
            ELSE IF FrameTypeToBufferType(frameType) = "none"
              THEN Finish(t, "UnknownFrameType", "none")
              ELSE /\ pc' = [pc EXCEPT ![t] = "send_lock"]
                   /\ UNCHANGED <<result, out, hnd>>
  /\ UNCHANGED <<chanVars, log, rt>>

\* lock_guard lock(m_sendMutex); WinHttpWebSocketSend(m_socketHandle.get(), ...) is issued.
SendFrameLock(t) ==
  /\ pc[t] = "send_lock"
  /\ mutex[SendFrameMutex] = 0
  /\ mutex' = [mutex EXCEPT ![SendFrameMutex] = t]
  /\ hnd' = [hnd EXCEPT ![t] = m_socketHandle]
  /\ log' = [log EXCEPT ![t] = Append(@, "WinHttpWebSocketSend")]
  /\ pc' = [pc EXCEPT ![t] = "send_native"]
  /\ UNCHANGED <<m_socketHandle, alive, handlesCreated, released, closeReturned, callers,
                 op, arg, ctx, result, out, rt>>

\* (mutant) the send mutex is unlocked on the normal return only
SendFrameReturnLeaksOnError(t) ==
  /\ pc[t] = "send_native"
  /\ \E err \in NativeErrors(hnd[t]) :
       /\ Finish(t, IF err # NoError THEN "TransportError" ELSE "ok", err)
       /\ mutex' = IF err # NoError THEN mutex ELSE [mutex EXCEPT ![SendFrameMutex] = 0]
  /\ UNCHANGED <<m_socketHandle, alive, handlesCreated, released, closeReturned, callers,
                 op, arg, ctx, log, rt>>

\* WinHttpWebSocketSend returns: err != 0 throws; the lock_guard unlocks either way.
SendFrameReturn(t) ==
  /\ pc[t] = "send_native"
  /\ \E err \in NativeErrors(hnd[t]) :
       Finish(t, IF err # NoError THEN "TransportError" ELSE "ok", err)
  /\ mutex' = [mutex EXCEPT ![SendFrameMutex] = 0]
  /\ UNCHANGED <<m_socketHandle, alive, handlesCreated, released, closeReturned, callers,
                 op, arg, ctx, log, rt>>

\* ------------------------------------------------------- ReceiveFrame

\* The staging buffer, std::vector<uint8_t> buffer(128) (zero-filled), after the
\* native receive wrote the bytes `written` at its start.
StagingBuffer(written) ==
  [i \in 1 .. StagingBufferSize |-> IF i <= Len(written) THEN written[i] ELSE 0]

\* std::vector::resize(n): the first n bytes, zero-padded when n exceeds the size.
Resize(buffer, n) ==
  [i \in 1 .. n |-> IF i <= Len(buffer) THEN buffer[i] ELSE 0]

\* The switch of ReceiveFrame: the frame type of a wire buffer type, "none" for the
\* default branch (which throws).
BufferTypeToFrameType(bufferType) ==
  CASE bufferType = "WINHTTP_WEB_SOCKET_UTF8_MESSAGE_BUFFER_TYPE" -> "FrameTypeText"
    [] bufferType = "WINHTTP_WEB_SOCKET_BINARY_MESSAGE_BUFFER_TYPE" -> "FrameTypeBinary"
    [] bufferType = "WINHTTP_WEB_SOCKET_BINARY_FRAGMENT_BUFFER_TYPE" -> "FrameTypeBinaryFragment"
    [] bufferType = "WINHTTP_WEB_SOCKET_UTF8_FRAGMENT_BUFFER_TYPE" -> "FrameTypeTextFragment"
    [] bufferType = "WINHTTP_WEB_SOCKET_CLOSE_BUFFER_TYPE" -> "FrameTypeClosed"
    [] OTHER -> "none"

\* ReceiveFrame after WinHttpWebSocketReceive returned (err, bytesRead, bufferType)
\* having written `written` into the staging buffer: what the call throws or returns.
ReceiveFrameResult(err, bytesRead, bufferType, written) ==
  IF err # NoError /\ err # InsufficientBuffer
    THEN [result |-> "TransportError", frameType |-> "none", data |-> <<>>]
    ELSE IF BufferTypeToFrameType(bufferType) = "none"
      THEN [result |-> "UnknownFrameType", frameType |-> "none", data |-> <<>>]
      ELSE [result |-> "ok",
            frameType |-> BufferTypeToFrameType(bufferType),
            data |-> Resize(StagingBuffer(written), bytesRead)]

\* What WinHttpWebSocketReceive on handle h may report.  On success it reports the
\* bytes it wrote and their buffer type.  With ERROR_INSUFFICIENT_BUFFER nothing is
\* known to be written to bufferBytesRead and bufferType, which the code reads anyway.
ReceiveOutcomes(h) ==
  IF h = NullHandle
    THEN {[err |-> InvalidHandle, bytesRead |-> 0, bufferType |-> UnknownBufferType,
           written |-> <<>>]}
    ELSE {[err |-> NoError, bytesRead |-> 1, bufferType |-> bt, written |-> <<7>>] :
            bt \in BufferTypes}
         \cup {[err |-> ConnectionError, bytesRead |-> 0, bufferType |-> UnknownBufferType,
                written |-> <<>>]}
         \cup {[err |-> InsufficientBuffer, bytesRead |-> 0, bufferType |-> bt,
                written |-> <<>>] :
                  bt \in {"WINHTTP_WEB_SOCKET_UTF8_FRAGMENT_BUFFER_TYPE", UnknownBufferType}}

\* (mutant) one mutex for both directions
ReceiveUnderSendMutex == "m_sendMutex"

\* The mutex ReceiveFrame's lock_guard takes.
ReceiveFrameMutex == "m_receiveMutex"

\* context.ThrowIfCancelled() of ReceiveFrame.
ReceiveFrameEnter(t) ==
  /\ MayEnter(t)
  /\ \E c \in {"live", "at_entry"} :
       /\ Enter(t, "ReceiveFrame", "none", c)
       /\ IF ThrowIfCancelled(c)
            THEN Finish(t, "Cancelled", "none")
            ELSE /\ pc' = [pc EXCEPT ![t] = "recv_lock"]
                 /\ UNCHANGED <<result, out, hnd>>
  /\ UNCHANGED <<chanVars, log, rt>>

\* lock_guard lock(m_receiveMutex); WinHttpWebSocketReceive(m_socketHandle.get(), ...)
\* is issued.
ReceiveFrameLock(t) ==
  /\ pc[t] = "recv_lock"
  /\ mutex[ReceiveFrameMutex] = 0
  /\ mutex' = [mutex EXCEPT ![ReceiveFrameMutex] = t]
  /\ hnd' = [hnd EXCEPT ![t] = m_socketHandle]
  /\ log' = [log EXCEPT ![t] = Append(@, "WinHttpWebSocketReceive")]
  /\ pc' = [pc EXCEPT ![t] = "recv_native"]
  /\ UNCHANGED <<m_socketHandle, alive, handlesCreated, released, closeReturned, callers,
                 op, arg, ctx, result, out, rt>>

\* (mutant) the receive mutex stays locked when ReceiveFrame ends
ReceiveFrameReturnKeepsLock(t) ==
  /\ pc[t] = "recv_native"
  /\ \E o \in ReceiveOutcomes(hnd[t]) :
       LET r == ReceiveFrameResult(o.err, o.bytesRead, o.bufferType, o.written)
       IN  Finish(t, r.result, [frameType |-> r.frameType, data |-> r.data])
  /\ UNCHANGED <<chanVars, op, arg, ctx, log, rt>>

\* WinHttpWebSocketReceive returns: the error test, the resize, the switch; the
\* lock_guard unlocks on every path.
ReceiveFrameReturn(t) ==
  /\ pc[t] = "recv_native"
  /\ \E o \in ReceiveOutcomes(hnd[t]) :
       LET r == ReceiveFrameResult(o.err, o.bytesRead, o.bufferType, o.written)
       IN  Finish(t, r.result, [frameType |-> r.frameType, data |-> r.data])
  /\ mutex' = [mutex EXCEPT ![ReceiveFrameMutex] = 0]
  /\ UNCHANGED <<m_socketHandle, alive, handlesCreated, released, closeReturned, callers,
                 op, arg, ctx, log, rt>>

\* ----------------------------------- CloseSocket, GetCloseSocketInformation

\* (mutant) the close-status query guarded by the send-path mutex
QueryUnderSendMutex == "m_sendMutex"

\* The mutex GetCloseSocketInformation's lock_guard takes.
GetCloseSocketInformationMutex == "m_receiveMutex"

\* (mutant) the echoed status is not compared
CloseStatusNeverCompared(got, sent) == FALSE

\* if (closeInformation.first != status)
CloseStatusMismatch(got, sent) == got # sent

\* context.ThrowIfCancelled(); WinHttpWebSocketClose(m_socketHandle.get(), status, ...)
\* is issued, under no lock.
CloseSocketEnter(t) ==
  /\ MayEnter(t)
  /\ \E status \in StatusValues, c \in {"live", "at_entry"} :
       /\ Enter(t, "CloseSocket", status, c)
       /\ IF ThrowIfCancelled(c)
            THEN /\ Finish(t, "Cancelled", "none")
                 /\ UNCHANGED log
            ELSE /\ pc' = [pc EXCEPT ![t] = "close_native"]
                 /\ hnd' = [hnd EXCEPT ![t] = m_socketHandle]
                 /\ log' = [log EXCEPT ![t] = Append(@, "WinHttpWebSocketClose")]
                 /\ UNCHANGED <<result, out>>
  /\ UNCHANGED <<chanVars, rt>>

\* (mutant) the query follows the transmit whatever the transmit returned
CloseSocketSentQueriesAnyway(t) ==
  /\ pc[t] = "close_native"
  /\ pc' = [pc EXCEPT ![t] = "query_lock"]
  /\ hnd' = [hnd EXCEPT ![t] = NullHandle]
  /\ UNCHANGED <<chanVars, op, arg, ctx, result, out, log, rt>>

\* WinHttpWebSocketClose returns: err != 0 throws; context.ThrowIfCancelled() (and
\* the one GetCloseSocketInformation starts with); then the receive mutex is awaited.
CloseSocketSent(t) ==
  /\ pc[t] = "close_native"
  /\ \E err \in NativeErrors(hnd[t]) :
       IF err # NoError
         THEN Finish(t, "TransportError", err)
         ELSE IF ThrowIfCancelled(ctx[t])
           THEN Finish(t, "Cancelled", "none")
           ELSE /\ pc' = [pc EXCEPT ![t] = "query_lock"]
                /\ hnd' = [hnd EXCEPT ![t] = NullHandle]
                /\ UNCHANGED <<result, out>>
  /\ UNCHANGED <<chanVars, op, arg, ctx, log, rt>>

\* context.ThrowIfCancelled() of GetCloseSocketInformation called directly.
GetCloseSocketInformationEnter(t) ==
  /\ MayEnter(t)
  /\ \E c \in {"live", "at_entry"} :
       /\ Enter(t, "GetCloseSocketInformation", "none", c)
       /\ IF ThrowIfCancelled(c)
            THEN Finish(t, "Cancelled", "none")
            ELSE /\ pc' = [pc EXCEPT ![t] = "query_lock"]
                 /\ UNCHANGED <<result, out, hnd>>
  /\ UNCHANGED <<chanVars, log, rt>>

\* lock_guard lock(m_receiveMutex); WinHttpWebSocketQueryCloseStatus(
\* m_socketHandle.get(), ...) is issued.
GetCloseSocketInformationLock(t) ==
  /\ pc[t] = "query_lock"
  /\ mutex[GetCloseSocketInformationMutex] = 0
  /\ mutex' = [mutex EXCEPT ![GetCloseSocketInformationMutex] = t]
  /\ hnd' = [hnd EXCEPT ![t] = m_socketHandle]
  /\ log' = [log EXCEPT ![t] = Append(@, "WinHttpWebSocketQueryCloseStatus")]
  /\ pc' = [pc EXCEPT ![t] = "query_native"]
  /\ UNCHANGED <<m_socketHandle, alive, handlesCreated, released, closeReturned, callers,
                 op, arg, ctx, result, out, rt>>

\* (mutant) a successful close handshake also releases the handle
CloseSocketCompareReleasing(t, closeStatus) ==
  /\ Finish(t, IF CloseStatusMismatch(closeStatus, arg[t]) THEN "StatusMismatch" ELSE "ok",
            closeStatus)
  /\ IF CloseStatusMismatch(closeStatus, arg[t])
       THEN UNCHANGED <<m_socketHandle, released, closeReturned>>
       ELSE /\ released' = ResetHandle(released, m_socketHandle)
            /\ m_socketHandle' = NullHandle
            /\ closeReturned' = TRUE

\* CloseSocket after GetCloseSocketInformation returned closeStatus: the comparison
\* with the status sent; a mismatch throws.  The handle is left as it is.
CloseSocketCompare(t, closeStatus) ==
  /\ Finish(t, IF CloseStatusMismatch(closeStatus, arg[t]) THEN "StatusMismatch" ELSE "ok",
            closeStatus)
  /\ UNCHANGED <<m_socketHandle, released, closeReturned>>

\* WinHttpWebSocketQueryCloseStatus returns: err != 0 throws (no status read), else
\* the status read is returned (to the caller, or to CloseSocket, which compares
\* it); the lock_guard unlocks on every path.
GetCloseSocketInformationReturn(t) ==
  /\ pc[t] = "query_native"
  /\ \E err \in NativeErrors(hnd[t]), closeStatus \in StatusValues :
       IF err # NoError
         THEN /\ Finish(t, "TransportError", NoStatus)
              /\ UNCHANGED <<m_socketHandle, released, closeReturned>>
         ELSE IF op[t] = "CloseSocket"
           THEN CloseSocketCompare(t, closeStatus)
           ELSE /\ Finish(t, "ok", closeStatus)
                /\ UNCHANGED <<m_socketHandle, released, closeReturned>>
  /\ mutex' = [mutex EXCEPT ![GetCloseSocketInformationMutex] = 0]
  /\ UNCHANGED <<alive, handlesCreated, callers, op, arg, ctx, log, rt>>

\* ------------------------------------------------------- specification

Next ==
  \/ \E t \in Threads :
       \/ OnResponseReceivedUpgrade(t)
       \/ OnResponseReceivedAssign(t)
       \/ CloseRead(t)
       \/ CloseRelease(t)
       \/ SendFrameEnter(t)
       \/ SendFrameLock(t)
       \/ SendFrameReturn(t)
       \/ ReceiveFrameEnter(t)
       \/ ReceiveFrameLock(t)
       \/ ReceiveFrameReturn(t)
       \/ CloseSocketEnter(t)
       \/ CloseSocketSent(t)
       \/ GetCloseSocketInformationEnter(t)
       \/ GetCloseSocketInformationLock(t)
       \/ GetCloseSocketInformationReturn(t)
       \/ Cancel(t)
       \/ Return(t)
  \/ Destroy

\* Caller threads calling at will.
Spec == Init /\ [][Next]_vars

\* One call at a time.
SeqSpec == SeqInit /\ [][Next]_vars


\* ------------------------------------- one sender and one receiver, open channel

\* The channel after a successful upgrade.
DuplexInit ==
  /\ m_socketHandle = 1
  /\ mutex = [m \in MutexNames |-> 0]
  /\ alive = TRUE
  /\ handlesCreated = 1
  /\ released = [h \in Handles |-> 0]
  /\ closeReturned = FALSE
  /\ InitThreads
  /\ callers = "concurrent"
  /\ rt = RtIdle

\* Thread 1 only sends, thread 2 only receives.
DuplexNext ==
  \/ SendFrameEnter(1)
  \/ SendFrameLock(1)
  \/ SendFrameReturn(1)
  \/ ReceiveFrameEnter(2)
  \/ ReceiveFrameLock(2)
  \/ ReceiveFrameReturn(2)
  \/ \E t \in {1, 2} : Cancel(t) \/ Return(t)

\* A running thread is scheduled again, a free mutex nobody else wants is obtained,
\* and each native call eventually returns.  Callers need not call, contexts need
\* not be cancelled.
DuplexFairness ==
  /\ WF_vars(SendFrameLock(1))
  /\ WF_vars(SendFrameReturn(1))
  /\ WF_vars(ReceiveFrameLock(2))
  /\ WF_vars(ReceiveFrameReturn(2))

DuplexSpec == DuplexInit /\ [][DuplexNext]_vars /\ DuplexFairness

\* ------------------------- a close handshake during a receive, open channel

\* Thread 1 calls CloseSocket (again and again), thread 2 makes one ReceiveFrame call.
HandshakeNext ==
  \/ CloseSocketEnter(1)
  \/ CloseSocketSent(1)
  \/ GetCloseSocketInformationLock(1)
  \/ GetCloseSocketInformationReturn(1)
  \/ ReceiveFrameEnter(2)
  \/ ReceiveFrameLock(2)
  \/ ReceiveFrameReturn(2)
  \/ \E t \in {1, 2} : Cancel(t)
  \/ Return(1)

\* Each native call eventually returns (the peer answers the close frame), and a
\* thread waiting for a mutex that stays free obtains it.
HandshakeFairness ==
  /\ WF_vars(CloseSocketSent(1))
  /\ WF_vars(GetCloseSocketInformationLock(1))
  /\ WF_vars(GetCloseSocketInformationReturn(1))
  /\ WF_vars(ReceiveFrameLock(2))
  /\ WF_vars(ReceiveFrameReturn(2))

HandshakeSpec == DuplexInit /\ [][HandshakeNext]_vars /\ HandshakeFairness

\* ------------------------------------------------- round trip over the wire

PayloadLengths ==
  {0, 1, 2, StagingBufferSize - 1, StagingBufferSize}
    \cup {StagingBufferSize + k : k \in 1 .. MaxPayloadExtra}

Payload(n, seed) == [i \in 1 .. n |-> (i * seed) % 256]

Payloads == {Payload(n, seed) : n \in PayloadLengths, seed \in {1, 3}}

\* What SendFrame hands to WinHttpWebSocketSend, which the peer finds on its wire.
SendFrameWire(frameType, frameData) ==
  [bufferType |-> FrameTypeToBufferType(frameType), data |-> frameData]

\* The fragment buffer type of a message buffer type.
FragmentOf(bufferType) ==
  CASE bufferType = "WINHTTP_WEB_SOCKET_UTF8_MESSAGE_BUFFER_TYPE"
         -> "WINHTTP_WEB_SOCKET_UTF8_FRAGMENT_BUFFER_TYPE"
    [] bufferType = "WINHTTP_WEB_SOCKET_BINARY_MESSAGE_BUFFER_TYPE"
         -> "WINHTTP_WEB_SOCKET_BINARY_FRAGMENT_BUFFER_TYPE"
    [] OTHER -> bufferType

\* WinHttpWebSocketReceive(handle, buffer, capacity, &bytesRead, &bufferType) on a
\* wire holding message msg: it writes at most capacity bytes; a message that does
\* not fit is delivered as a fragment of capacity bytes, the rest left for later calls.
NativeReceive(msg, capacity) ==
  IF Len(msg.data) <= capacity
    THEN [err |-> NoError, bytesRead |-> Len(msg.data), bufferType |-> msg.bufferType,
          written |-> msg.data]
    ELSE [err |-> NoError, bytesRead |-> capacity, bufferType |-> FragmentOf(msg.bufferType),
          written |-> SubSeq(msg.data, 1, capacity)]

RoundTripInit ==
  /\ InitChannel
  /\ InitThreads
  /\ callers = "sequential"
  /\ rt \in {[stage |-> "input", frameType |-> ft, data |-> d] :
               ft \in SupportedFrameTypes, d \in Payloads}

\* SendFrame(frameType, data) with a live context whose native send succeeds.
RoundTripSend ==
  /\ rt.stage = "input"
  /\ rt' = [stage |-> "sent", frameType |-> rt.frameType, data |-> rt.data,
            wire |-> SendFrameWire(rt.frameType, rt.data)]
  /\ UNCHANGED <<chanVars, thVars>>

\* One ReceiveFrame of the peer channel, whose native receive reads the mirrored wire.
RoundTripReceive ==
  /\ rt.stage = "sent"
  /\ LET o == NativeReceive(rt.wire, StagingBufferSize)
         r == ReceiveFrameResult(o.err, o.bytesRead, o.bufferType, o.written)
     IN  rt' = [stage |-> "received", frameType |-> rt.frameType, data |-> rt.data,
                wire |-> rt.wire, result |-> r.result,
                receivedType |-> r.frameType, received |-> r.data]
  /\ UNCHANGED <<chanVars, thVars>>

RoundTripNext == RoundTripSend \/ RoundTripReceive

RoundTripSpec == RoundTripInit /\ [][RoundTripNext]_vars


\* ------------------------------------- ReceiveFrame on each native outcome

\* What ReceiveFrame finds in its locals after WinHttpWebSocketReceive returned err.
\* On success the call reported bufferBytesRead (at most the capacity it was given)
\* and bufferType, and wrote that many bytes.  On ERROR_INSUFFICIENT_BUFFER, which
\* ReceiveFrame tolerates, the call failed and reported nothing: bufferBytesRead and
\* bufferType, declared without initializer, hold indeterminate values, which
\* ReceiveFrame reads all the same.
ReceiveReports ==
  {[err |-> NoError, reported |-> TRUE, bytesRead |-> Len(d), bufferType |-> bt,
    written |-> d] :
      bt \in BufferTypes, d \in {p \in Payloads : Len(p) <= StagingBufferSize}}
  \cup {[err |-> InsufficientBuffer, reported |-> FALSE, bytesRead |-> n, bufferType |-> bt,
         written |-> <<>>] :
           n \in {0, StagingBufferSize + 1}, bt \in BufferTypes}
  \cup {[err |-> ConnectionError, reported |-> FALSE, bytesRead |-> 0,
         bufferType |-> UnknownBufferType, written |-> <<>>]}

ReceiveInit ==
  /\ InitChannel
  /\ InitThreads
  /\ callers = "sequential"
  /\ rt \in {[stage |-> "native", outcome |-> o] : o \in ReceiveReports}

\* ReceiveFrame from the return of its native receive to its own return or throw.
ReceiveClassify ==
  /\ rt.stage = "native"
  /\ LET o == rt.outcome
         r == ReceiveFrameResult(o.err, o.bytesRead, o.bufferType, o.written)
     IN  rt' = [stage |-> "classified", outcome |-> o, result |-> r.result,
                receivedType |-> r.frameType, received |-> r.data]
  /\ UNCHANGED <<chanVars, thVars>>

ReceiveSpec == ReceiveInit /\ [][ReceiveClassify]_vars

\* ----------------------------- the close reason of GetCloseSocketInformation

\* WINHTTP_WEB_SOCKET_MAX_CLOSE_REASON_LENGTH, the size of closeReason
MaxCloseReasonLength == 123

\* Reasons the native query may write: zero-free bytes, of lengths at both ends of
\* what the buffer takes.
ReasonLengths ==
  {0, 1, 2, 3, MaxCloseReasonLength - 2, MaxCloseReasonLength - 1, MaxCloseReasonLength}

Reasons == {Payload(n, seed) : n \in ReasonLengths, seed \in {1, 3}}

\* What may lie in memory behind closeReason: indeterminate bytes, up to a zero.
BehindBuffer == {<<0>>, <<65, 0>>, <<65, 66, 0>>, <<255, 1, 2, 0>>, <<1, 1, 1, 1, 0>>}

\* char closeReason[WINHTTP_WEB_SOCKET_MAX_CLOSE_REASON_LENGTH]{}: zero-filled, then
\* the native query wrote the bytes `written` at its start.
CloseReasonBuffer(written) ==
  [i \in 1 .. MaxCloseReasonLength |-> IF i <= Len(written) THEN written[i] ELSE 0]

\* std::string(const char*): the bytes from the pointer up to the first zero byte.
StdString(memory) ==
  LET k == CHOOSE i \in 1 .. Len(memory) :
             memory[i] = 0 /\ \A j \in 1 .. i - 1 : memory[j] # 0
  IN  SubSeq(memory, 1, k - 1)

\* std::string(closeReason) in GetCloseSocketInformation: closeReasonLength is not
\* used; the read runs on behind the array when the array holds no zero byte.
CloseReasonString(written, behind) ==
  StdString(CloseReasonBuffer(written) \o behind)

ReasonInit ==
  /\ InitChannel
  /\ InitThreads
  /\ callers = "sequential"
  /\ rt \in {[stage |-> "queried", written |-> w, behind |-> b] :
               w \in Reasons, b \in BehindBuffer}

\* GetCloseSocketInformation from the successful return of its native query to its
\* own return.
ReasonReturn ==
  /\ rt.stage = "queried"
  /\ rt' = [stage |-> "returned", written |-> rt.written, behind |-> rt.behind,
            reason |-> CloseReasonString(rt.written, rt.behind)]
  /\ UNCHANGED <<chanVars, thVars>>

ReasonSpec == ReasonInit /\ [][ReasonReturn]_vars

\* ------------------------------------------------------------- claims

InSendNative == {t \in Threads : pc[t] = "send_native"}
InReceivePathNative == {t \in Threads : pc[t] \in {"recv_native", "query_native"}}

\* C1: at any time at most one thread is inside the native frame send issued by
\* SendFrame, and at most one thread is inside a native receive-path call (the
\* receive of ReceiveFrame or the close-status query of GetCloseSocketInformation).
C1_MutualExclusion ==
  /\ Cardinality(InSendNative) <= 1
  /\ Cardinality(InReceivePathNative) <= 1

\* A close-status query waits for the receive mutex while a receive is outstanding.
C1_Witness ==
  \E t, u \in Threads : pc[t] = "recv_native" /\ pc[u] = "query_lock"

\* C2: with one sender and one receiver on an open channel, the sender is never kept
\* from its native send by the receiver (nor the receiver from its native receive by
\* the sender), and, native calls returning, both operations complete.
C2_DuplexCompletes ==
  /\ [](pc[1] = "send_lock" => ENABLED SendFrameLock(1))
  /\ [](pc[2] = "recv_lock" => ENABLED ReceiveFrameLock(2))
  /\ (pc[1] \in {"send_lock", "send_native"}) ~> (pc[1] = "done")
  /\ (pc[2] \in {"recv_lock", "recv_native"}) ~> (pc[2] = "done")

\* The native send and the native receive are outstanding at the same time.
C2_Witness == pc[1] = "send_native" /\ pc[2] = "recv_native"

\* C3: CloseSocket returns normally only if the status the peer echoed equals the
\* status sent; it ends with the mismatch error exactly when the query succeeded with
\* a different status (out is the echoed status in both of these outcomes).
C3_CloseStatusMatch ==
  \A t \in Threads :
    (pc[t] = "done" /\ op[t] = "CloseSocket") =>
      /\ result[t] = "ok" => (out[t] \in StatusValues /\ out[t] = arg[t])
      /\ result[t] = "StatusMismatch" => (out[t] \in StatusValues /\ out[t] # arg[t])
      /\ result[t] \in {"ok", "StatusMismatch", "TransportError", "Cancelled"}

\* A CloseSocket whose peer echoed another status has thrown.
C3_Witness ==
  \E t \in Threads :
    /\ pc[t] = "done" /\ op[t] = "CloseSocket"
    /\ result[t] = "StatusMismatch"
    /\ arg[t] = 1000 /\ out[t] = 1001
    /\ log[t] = <<"WinHttpWebSocketClose", "WinHttpWebSocketQueryCloseStatus">>

\* C4: once Close() has returned, every later SendFrame or ReceiveFrame fails before
\* it issues a native call: none is inside a native call, and none ends having
\* issued one or returns normally.
C4_ClosedChannelFailsFast ==
  \A t \in Threads :
    (closeReturned /\ op[t] \in {"SendFrame", "ReceiveFrame"}) =>
      /\ pc[t] \notin NativePcs
      /\ pc[t] = "done" => (result[t] # "ok" /\ log[t] = <<>>)

\* C5: Close() on a channel whose handle is already released (Close() has returned,
\* or no handle is held) runs no deleter, raises no error and leaves no handle held.
C5_CloseIdempotent ==
  [][\A t \in Threads :
       (pc[t] = "reset" /\ pc'[t] = "done"
          /\ (closeReturned \/ m_socketHandle = NullHandle)) =>
         /\ released' = released
         /\ log'[t] = <<>>
         /\ result'[t] = "ok"
         /\ m_socketHandle' = NullHandle]_vars

\* A Close() has returned without running the deleter, on a channel whose one
\* handle was released before.
C5_Witness ==
  \E t \in Threads :
    /\ pc[t] = "done" /\ op[t] = "Close" /\ result[t] = "ok" /\ log[t] = <<>>
    /\ handlesCreated >= 1 /\ released[1] = 1 /\ m_socketHandle = NullHandle
    /\ closeReturned

Quiescent == \A t \in Threads : pc[t] \in {"idle", "done"}

\* The native handles created and not yet closed.
OpenHandles == {h \in Handles : h <= handlesCreated /\ released[h] = 0}

\* C6: after any sequence of calls the channel owns at most one native handle, which
\* is the only one still open; no handle is closed twice; after destruction none is
\* left open.
C6_HandleOwnership ==
  /\ \A h \in Handles : released[h] <= 1 /\ (h > handlesCreated => released[h] = 0)
  /\ Quiescent => OpenHandles = {m_socketHandle} \ {NullHandle}
  /\ ~alive => OpenHandles = {}

\* Upgrade completion ran again on a channel that held a handle, and closed it.
C6_Witness ==
  \E t \in Threads :
    /\ pc[t] = "done" /\ op[t] = "OnResponseReceived" /\ result[t] = "ok"
    /\ log[t] = <<"WinHttpWebSocketCompleteUpgrade", "WinHttpCloseHandle">>
    /\ m_socketHandle = 2 /\ released[1] = 1

ContextOps == {"SendFrame", "ReceiveFrame", "CloseSocket", "GetCloseSocketInformation"}

\* C8: an operation entered with a context that is already cancelled ends at once
\* with Cancelled: no native call issued, no mutex taken, the handle untouched.
C8_CancelledAtEntry ==
  [][\A t \in Threads :
       (pc[t] = "idle" /\ pc'[t] # "idle" /\ op'[t] \in ContextOps
          /\ ctx'[t] = "at_entry") =>
         /\ pc'[t] = "done"
         /\ result'[t] = "Cancelled"
         /\ log'[t] = <<>>
         /\ mutex' = mutex
         /\ m_socketHandle' = m_socketHandle
         /\ released' = released]_vars

\* A CloseSocket entered with a cancelled context has ended with Cancelled, on a
\* channel that holds a handle.
C8_Witness ==
  \E t \in Threads :
    /\ pc[t] = "done" /\ op[t] = "CloseSocket" /\ ctx[t] = "at_entry"
    /\ result[t] = "Cancelled" /\ m_socketHandle # NullHandle

\* C9: an operation whose context is cancelled while one of its native calls is
\* outstanding does not return normally.
C9_CancelSeenAfterNative ==
  \A t \in Threads :
    (pc[t] = "done" /\ op[t] \in ContextOps /\ ctx[t] = "in_native") =>
      result[t] # "ok"

\* C10: a frame of a supported type sent with SendFrame and read back by one
\* ReceiveFrame of the peer comes back with the same type and the same bytes.
C10_RoundTrip ==
  rt.stage = "received" =>
    /\ rt.result = "ok"
    /\ rt.receivedType = rt.frameType
    /\ rt.received = rt.data

\* C11: the assignment step of OnResponseReceived: when the native upgrade returned
\* no handle the call throws and the channel holds no handle (the one held before was
\* closed); when it returned a handle the call returns and the channel holds exactly
\* that handle, open.
C11_UpgradeOutcome ==
  [][\A t \in Threads :
       (pc[t] = "assign" /\ pc'[t] = "done") =>
         IF hnd[t] = NullHandle
           THEN /\ result'[t] = "UpgradeError"
                /\ m_socketHandle' = NullHandle
                /\ OpenHandles' = {}
           ELSE /\ result'[t] = "ok"
                /\ m_socketHandle' = hnd[t]
                /\ OpenHandles' = {hnd[t]}]_vars

\* An upgrade failed on a channel that held a handle: the call threw, the handle held
\* before was closed and none is held.
C11_Witness ==
  \E t \in Threads :
    /\ pc[t] = "done" /\ op[t] = "OnResponseReceived" /\ result[t] = "UpgradeError"
    /\ log[t] = <<"WinHttpWebSocketCompleteUpgrade", "WinHttpCloseHandle">>
    /\ m_socketHandle = NullHandle /\ released[1] = 1

\* C12: the close-frame transmit of CloseSocket is never outstanding while the frame
\* send of a SendFrame on the same channel is outstanding.
C12_CloseTransmitSerialized ==
  \A t, u \in Threads : ~(pc[t] = "close_native" /\ pc[u] = "send_native")

\* C13: while Close() has returned and no new handle was assigned, no native call
\* is in progress on a handle that has been released.
C13_NoReleaseDuringNativeCall ==
  \A t \in Threads :
    (closeReturned /\ pc[t] \in NativePcs /\ hnd[t] # NullHandle) =>
      released[hnd[t]] = 0

\* C14: a CloseSocket called while another thread's ReceiveFrame is in flight: its
\* close transmit is issued whatever the state of the receive mutex, its query
\* obtains the receive mutex once the ReceiveFrame is no longer inside the native
\* receive, and, native calls returning, the CloseSocket ends.
C14_CloseSocketCompletes ==
  /\ [](pc[1] = "idle" => ENABLED CloseSocketEnter(1))
  /\ []((pc[1] = "query_lock" /\ pc[2] # "recv_native")
          => ENABLED GetCloseSocketInformationLock(1))
  /\ (pc[1] \in {"close_native", "query_lock", "query_native"}) ~> (pc[1] = "done")

\* The CloseSocket has transmitted its close frame and waits for the receive mutex,
\* which the ReceiveFrame in flight holds.
C14_Witness ==
  /\ pc[1] = "query_lock" /\ op[1] = "CloseSocket" /\ log[1] = <<"WinHttpWebSocketClose">>
  /\ pc[2] = "recv_native" /\ mutex["m_receiveMutex"] = 2

CloseSocketCalls ==
  { <<>>, <<"WinHttpWebSocketClose">>,
    <<"WinHttpWebSocketClose", "WinHttpWebSocketQueryCloseStatus">> }

\* C15: within a CloseSocket call the native calls are the close transmit, then the
\* query; the query is issued only by a call that waited at the receive mutex, which
\* only a call whose transmit succeeded and whose context was then still live
\* reaches: a failed transmit ends the call with the transport error, a
\* cancellation seen after the transmit ends it with Cancelled, neither having
\* queried; and only a call that queried ends with the comparison's outcome.
C15_CloseSocketOrder ==
  /\ [](\A t \in Threads :
          op[t] = "CloseSocket" =>
            /\ log[t] \in CloseSocketCalls
            /\ pc[t] \in {"close_native", "query_lock"} => Len(log[t]) = 1
            /\ pc[t] = "query_native" => Len(log[t]) = 2
            /\ (pc[t] = "done" /\ result[t] \in {"ok", "StatusMismatch"}) => Len(log[t]) = 2
            /\ (pc[t] = "done" /\ result[t] = "Cancelled") => Len(log[t]) <= 1)
  /\ [][\A t \in Threads :
          /\ (op[t] = "CloseSocket" /\ pc[t] = "close_native" /\ pc'[t] # pc[t]) =>
               /\ log'[t] = log[t]
               /\ pc'[t] \in {"done", "query_lock"}
               /\ pc'[t] = "query_lock" => ctx[t] = "live"
               /\ pc'[t] = "done" =>
                    \/ result'[t] = "TransportError" /\ out'[t] # NoError
                    \/ result'[t] = "Cancelled" /\ ctx[t] # "live"
          /\ (op[t] = "CloseSocket" /\ Len(log'[t]) = 2 /\ Len(log[t]) < 2) =>
               pc[t] = "query_lock"]_vars

\* A CloseSocket whose context was cancelled during the close transmit has ended
\* with Cancelled without querying.
C15_Witness ==
  \E t \in Threads :
    /\ pc[t] = "done" /\ op[t] = "CloseSocket" /\ result[t] = "Cancelled"
    /\ ctx[t] = "in_native" /\ log[t] = <<"WinHttpWebSocketClose">>

\* The state of the channel as the transport's members hold it: m_socketHandle holds
\* a handle or none.  No member records that a close frame was sent or received.
ChannelState == IF m_socketHandle = NullHandle THEN "Closed" ELSE "Open"

\* C16: a ReceiveFrame that reported the Closed frame type has left the channel
\* Closing; one that reported any other frame type has left it as it was.
C16_CloseFrameMovesToClosing ==
  \A t \in Threads :
    (pc[t] = "done" /\ op[t] = "ReceiveFrame" /\ result[t] = "ok") =>
      IF out[t].frameType = "FrameTypeClosed"
        THEN ChannelState = "Closing"
        ELSE ChannelState = "Open"

\* C17: on a channel that holds a handle, a SendFrame or ReceiveFrame whose context
\* was cancelled while it was blocked on its mutex, held by another thread, does not
\* issue its native call, and ends with Cancelled.
C17_CancelSeenAfterLock ==
  \A t \in Threads :
    (op[t] \in {"SendFrame", "ReceiveFrame"} /\ ctx[t] = "blocked"
       /\ m_socketHandle # NullHandle /\ released[m_socketHandle] = 0) =>
      /\ pc[t] \notin NativePcs
      /\ pc[t] = "done" => (result[t] = "Cancelled" /\ log[t] = <<>>)

\* C18: a SendFrame with a frame type outside the four supported ones never waits for
\* or holds the send mutex nor issues a native send, and (its context live at entry)
\* ends with the unknown-frame-type error; one with a supported type, past the entry
\* check, ends having issued one native send, with the transport error exactly when
\* that send reported an error, and normally otherwise.
C18_SendFrameOutcome ==
  \A t \in Threads :
    op[t] = "SendFrame" =>
      /\ arg[t] \notin SupportedFrameTypes =>
           /\ pc[t] \notin {"send_lock", "send_native"}
           /\ mutex["m_sendMutex"] # t
           /\ log[t] = <<>>
           /\ pc[t] = "done" =>
                result[t] = (IF ctx[t] = "at_entry" THEN "Cancelled" ELSE "UnknownFrameType")
      /\ (arg[t] \in SupportedFrameTypes /\ pc[t] = "done" /\ ctx[t] # "at_entry") =>
           /\ log[t] = <<"WinHttpWebSocketSend">>
           /\ result[t] = (IF out[t] # NoError THEN "TransportError" ELSE "ok")

\* A SendFrame of the Closed frame type has ended with the unknown-frame-type error
\* on an open channel, no native call issued.
C18_Witness ==
  \E t \in Threads :
    /\ pc[t] = "done" /\ op[t] = "SendFrame" /\ arg[t] = "FrameTypeClosed"
    /\ ctx[t] = "live" /\ result[t] = "UnknownFrameType" /\ log[t] = <<>>
    /\ m_socketHandle # NullHandle

\* C19: whenever ReceiveFrame returns a frame, the native receive reported a byte
\* count and a wire type, the payload returned has exactly that many bytes, at most
\* the staging buffer's size, and the frame type returned classifies that wire type.
C19_ReceiveReturnsWhatWasReported ==
  (rt.stage = "classified" /\ rt.result = "ok") =>
    /\ rt.outcome.reported
    /\ Len(rt.received) = rt.outcome.bytesRead
    /\ Len(rt.received) <= StagingBufferSize
    /\ rt.receivedType = BufferTypeToFrameType(rt.outcome.bufferType)

\* The threads inside the region a mutex guards.
InRegion(m) ==
  {t \in Threads :
     \/ m = "m_sendMutex" /\ pc[t] = "send_native"
     \/ m = "m_receiveMutex" /\ pc[t] \in {"recv_native", "query_native"}}

\* C20: a mutex is held only by a thread that is inside the native call of the
\* operation that took it: whenever no thread is there, whichever way the operations
\* before ended, the mutex is free.
C20_LocksReleased ==
  \A m \in MutexNames : mutex[m] # 0 => mutex[m] \in InRegion(m)

\* A SendFrame on an open channel has ended with a transport error from its native
\* send: both mutexes are free.
C20_Witness ==
  \E t \in Threads :
    /\ pc[t] = "done" /\ op[t] = "SendFrame" /\ result[t] = "TransportError"
    /\ log[t] = <<"WinHttpWebSocketSend">> /\ m_socketHandle # NullHandle
    /\ \A m \in MutexNames : mutex[m] = 0

\* C21: the close reason GetCloseSocketInformation returns is exactly the bytes the
\* native query wrote, and is no longer than the close-reason buffer.
C21_CloseReasonExact ==
  rt.stage = "returned" =>
    /\ rt.reason = rt.written
    /\ Len(rt.reason) <= MaxCloseReasonLength

=============================================================================
